---- MODULE Spec2Model ----
(***************************************************************************)
(* Model of app/core/config.py: the configuration loader of News Detector. *)
(*                                                                         *)
(* A Python str is a sequence of one-character strings, so that strip(),   *)
(* int() and the f-string of the error message are computed and not        *)
(* assumed.  os.environ and the parsed .env file are dicts: functions      *)
(* whose DOMAIN is the set of names that are set.                          *)
(***************************************************************************)
EXTENDS Integers, Sequences, FiniteSets, TLC

VARIABLES
    environ,    \* os.environ: name -> str, for the names that are set
    dotenv,     \* the .env file as parsed by python-dotenv: name -> str
    outcome,    \* what the last Config.load() produced: a Config or a ConfigError
    held,       \* the Config objects returned so far, in order of return
    call,       \* the last Config.load() call: os.environ before, .env, os.environ after
    raised,     \* the exception an attribute assignment on a held Config raised, if it was the last operation
    edits,      \* number of writes to os.environ / .env by the process so far
    loads       \* number of Config.load() calls so far

vars == <<environ, dotenv, outcome, held, call, raised, edits, loads>>

-----------------------------------------------------------------------------
(* Bounds of the exploration *)

MaxEdits == 2
MaxLoads == 2

-----------------------------------------------------------------------------
(* Names and defaults *)

TOKEN == "TELEGRAM_BOT_TOKEN"
DBURL == "DATABASE_URL"
INTERVAL == "CHECK_INTERVAL_MINUTES"
MINLEN == "SUMMARY_MIN_LEN"
MAXLEN == "SUMMARY_MAX_LEN"
LOGLEVEL == "LOG_LEVEL"

RequiredNames == <<TOKEN, DBURL>>
IntNames == <<INTERVAL, MINLEN, MAXLEN>>
Names == {TOKEN, DBURL, INTERVAL, MINLEN, MAXLEN, LOGLEVEL}

DefaultCheckInterval == 15
DefaultSummaryMinLen == 140
DefaultSummaryMaxLen == 280
DefaultLogLevel == <<"I", "N", "F", "O">>

Range(s) == {s[i] : i \in 1..Len(s)}

-----------------------------------------------------------------------------
(* str.strip(), str(int), int(str), repr(str) *)

Whitespace == {" ", "\t", "\n", "\r"}

RECURSIVE LStrip(_)
LStrip(s) ==
    IF Len(s) > 0 /\ Head(s) \in Whitespace THEN LStrip(Tail(s)) ELSE s

RECURSIVE RStrip(_)
RStrip(s) ==
    IF Len(s) > 0 /\ s[Len(s)] \in Whitespace
    THEN RStrip(SubSeq(s, 1, Len(s) - 1))
    ELSE s

StripLeft(s) == LStrip(s)

Strip(s) == RStrip(LStrip(s))

Digits == <<"0", "1", "2", "3", "4", "5", "6", "7", "8", "9">>

IsDigit(c) == c \in Range(Digits)

DigitVal(c) == (CHOOSE i \in 1..Len(Digits) : Digits[i] = c) - 1

RECURSIVE StrNat(_)
StrNat(n) ==
    IF n < 10 THEN <<Digits[n + 1]>> ELSE StrNat(n \div 10) \o <<Digits[(n % 10) + 1]>>

\* str(default) of an int default
Str(n) == IF n < 0 THEN <<"-">> \o StrNat(-n) ELSE StrNat(n)

\* The digit part of an int() literal: digits, single underscores between digits.
ValidDigits(s) ==
    /\ Len(s) > 0
    /\ IsDigit(s[1])
    /\ IsDigit(s[Len(s)])
    /\ \A i \in 1..Len(s) : IsDigit(s[i]) \/ s[i] = "_"
    /\ \A i \in 1..(Len(s) - 1) : ~(s[i] = "_" /\ s[i + 1] = "_")

RECURSIVE DigitsValue(_)
DigitsValue(s) ==
    IF Len(s) = 0 THEN 0
    ELSE LET front == SubSeq(s, 1, Len(s) - 1)
             c == s[Len(s)]
         IN  IF c = "_" THEN DigitsValue(front) ELSE 10 * DigitsValue(front) + DigitVal(c)

\* int(s), base 10: ok = FALSE stands for ValueError
ParseInt(s) ==
    LET t == Strip(s)
        signed == Len(t) > 0 /\ t[1] \in {"+", "-"}
        body == IF signed THEN Tail(t) ELSE t
    IN  IF ValidDigits(body)
        THEN [ok |-> TRUE,
              val |-> IF signed /\ t[1] = "-" THEN -DigitsValue(body) ELSE DigitsValue(body)]
        ELSE [ok |-> FALSE]

\* repr(s) of a str without quotes, backslashes or control characters
Repr(s) == <<"'">> \o s \o <<"'">>

-----------------------------------------------------------------------------
(* os.getenv *)

Getenv(env, name, default) ==
    IF name \in DOMAIN env THEN env[name] ELSE default

-----------------------------------------------------------------------------
(* load_dotenv(override=False) *)

SetItem(env, name, value) ==
    [n \in (DOMAIN env) \cup {name} |-> IF n = name THEN value ELSE env[n]]

DelItem(env, name) == [n \in (DOMAIN env) \ {name} |-> env[n]]

\* load_dotenv(override=True)
LoadDotenvOverride(env, file) ==
    [n \in (DOMAIN env) \cup (DOMAIN file) |->
        IF n \in DOMAIN file THEN file[n] ELSE env[n]]

\* Sets os.environ[k] = v for the pairs of the file whose k is not in os.environ.
LoadDotenv(env, file) ==
    [n \in (DOMAIN env) \cup (DOMAIN file) |->
        IF n \in DOMAIN env THEN env[n] ELSE file[n]]

-----------------------------------------------------------------------------
(* ConfigError and its messages: a message is the sequence of its pieces,  *)
(* the characters of an interpolated str being pieces of their own.        *)

ConfigError(msg) == [kind |-> "ConfigError", msg |-> msg]

MissingPrefix == "Missing required environment variable(s): "
MissingSuffix == ". Create a .env file or set them in the environment."
InvalidPrefix == "Invalid integer for "
MustBePositive == " must be > 0"
MinLeMax == " must be <= "

\* ", ".join(names)
RECURSIVE Join(_)
Join(names) ==
    IF Len(names) = 0 THEN <<>>
    ELSE IF Len(names) = 1 THEN names
    ELSE <<Head(names), ", ">> \o Join(Tail(names))

MissingMessage(missing) == <<MissingPrefix>> \o Join(missing) \o <<MissingSuffix>>

InvalidMessage(name, raw) == <<InvalidPrefix, name, ": ">> \o Repr(raw)

PositiveMessage(name) == <<name, MustBePositive>>

MinMaxMessage == <<MINLEN, MinLeMax, MAXLEN>>

-----------------------------------------------------------------------------
(* _get_int_env(name, default) *)

\* a slip: a value int() rejects falls back to the default
GetIntEnvDefaultOnError(env, name, default) ==
    LET raw == Strip(Getenv(env, name, Str(default)))
        p == ParseInt(raw)
    IN  IF p.ok THEN [ok |-> TRUE, val |-> p.val] ELSE [ok |-> TRUE, val |-> default]

\* a slip: "os.getenv(name) or str(default)", a blank value takes the default
GetIntEnvBlankDefault(env, name, default) ==
    LET raw == Strip(Getenv(env, name, Str(default)))
        p == ParseInt(IF raw = <<>> THEN Str(default) ELSE raw)
    IN  IF p.ok
        THEN [ok |-> TRUE, val |-> p.val]
        ELSE [ok |-> FALSE, error |-> ConfigError(InvalidMessage(name, raw))]

GetIntEnv(env, name, default) ==
    LET raw == Strip(Getenv(env, name, Str(default)))
        p == ParseInt(raw)
    IN  IF p.ok
        THEN [ok |-> TRUE, val |-> p.val]
        ELSE [ok |-> FALSE, error |-> ConfigError(InvalidMessage(name, raw))]

-----------------------------------------------------------------------------
(* Config and Config.load() after load_dotenv *)

NotFrozen == FALSE

\* @dataclass(frozen=True, slots=True)
Frozen == TRUE

Config(token, url, interval, minlen, maxlen, level) ==
    [kind |-> "Config",
     TELEGRAM_BOT_TOKEN |-> token,
     DATABASE_URL |-> url,
     CHECK_INTERVAL_MINUTES |-> interval,
     SUMMARY_MIN_LEN |-> minlen,
     SUMMARY_MAX_LEN |-> maxlen,
     LOG_LEVEL |-> level]

\* x or y, for str
Or(x, y) == IF x = <<>> THEN y ELSE x

\* a slip: the first missing name is reported alone
MissingFailFast(env) ==
    LET all == SelectSeq(RequiredNames, LAMBDA n : Strip(Or(Getenv(env, n, <<>>), <<>>)) = <<>>)
    IN  IF Len(all) > 1 THEN <<Head(all)>> ELSE all

\* the list "missing" of load(): the required names that are unset or blank
Missing(env) ==
    SelectSeq(RequiredNames, LAMBDA n : Strip(Or(Getenv(env, n, <<>>), <<>>)) = <<>>)

\* a slip: the cross-field check is left out
ValidateNoCrossCheck(token, url, interval, minlen, maxlen, level) ==
    IF interval <= 0 THEN ConfigError(PositiveMessage(INTERVAL))
    ELSE IF minlen <= 0 THEN ConfigError(PositiveMessage(MINLEN))
    ELSE IF maxlen <= 0 THEN ConfigError(PositiveMessage(MAXLEN))
    ELSE Config(token, url, interval, minlen, maxlen, level)

\* the range checks and the construction, lines 124-141
Validate(token, url, interval, minlen, maxlen, level) ==
    IF interval <= 0 THEN ConfigError(PositiveMessage(INTERVAL))
    ELSE IF minlen <= 0 THEN ConfigError(PositiveMessage(MINLEN))
    ELSE IF maxlen <= 0 THEN ConfigError(PositiveMessage(MAXLEN))
    ELSE IF minlen > maxlen THEN ConfigError(MinMaxMessage)
    ELSE Config(token, url, interval, minlen, maxlen, level)

\* a slip: each integer is range-checked as soon as it is parsed
LoadFromCheckingEach(env) ==
    LET telegram_bot_token == Strip(Or(Getenv(env, TOKEN, <<>>), <<>>))
        database_url == Strip(Or(Getenv(env, DBURL, <<>>), <<>>))
        missing == Missing(env)
        check_interval_minutes == GetIntEnv(env, INTERVAL, DefaultCheckInterval)
        summary_min_len == GetIntEnv(env, MINLEN, DefaultSummaryMinLen)
        summary_max_len == GetIntEnv(env, MAXLEN, DefaultSummaryMaxLen)
        log_level == Or(Strip(Getenv(env, LOGLEVEL, DefaultLogLevel)), DefaultLogLevel)
    IN  IF Len(missing) > 0 THEN ConfigError(MissingMessage(missing))
        ELSE IF ~check_interval_minutes.ok THEN check_interval_minutes.error
        ELSE IF check_interval_minutes.val <= 0 THEN ConfigError(PositiveMessage(INTERVAL))
        ELSE IF ~summary_min_len.ok THEN summary_min_len.error
        ELSE IF summary_min_len.val <= 0 THEN ConfigError(PositiveMessage(MINLEN))
        ELSE IF ~summary_max_len.ok THEN summary_max_len.error
        ELSE Validate(telegram_bot_token, database_url, check_interval_minutes.val,
                      summary_min_len.val, summary_max_len.val, log_level)

\* Config.load() from line 102 on, on the environment load_dotenv left
LoadFrom(env) ==
    LET telegram_bot_token == Strip(Or(Getenv(env, TOKEN, <<>>), <<>>))
        database_url == Strip(Or(Getenv(env, DBURL, <<>>), <<>>))
        missing == Missing(env)
        check_interval_minutes == GetIntEnv(env, INTERVAL, DefaultCheckInterval)
        summary_min_len == GetIntEnv(env, MINLEN, DefaultSummaryMinLen)
        summary_max_len == GetIntEnv(env, MAXLEN, DefaultSummaryMaxLen)
        log_level == Or(Strip(Getenv(env, LOGLEVEL, DefaultLogLevel)), DefaultLogLevel)
    IN  IF Len(missing) > 0 THEN ConfigError(MissingMessage(missing))
        ELSE IF ~check_interval_minutes.ok THEN check_interval_minutes.error
        ELSE IF ~summary_min_len.ok THEN summary_min_len.error
        ELSE IF ~summary_max_len.ok THEN summary_max_len.error
        ELSE Validate(telegram_bot_token, database_url, check_interval_minutes.val,
                      summary_min_len.val, summary_max_len.val, log_level)

-----------------------------------------------------------------------------
(* Inputs: the values the process environment and the .env file may hold *)

RequiredValues == { <<>>, <<" ">>, <<"t">>, <<" ", "t", "\t">> }

IntValues ==
    { <<>>, <<" ">>, <<"a", "b", "c">>, <<" ", "x", " ">>, <<"0">>, <<"-", "1">>,
      <<"7">>, <<" ", "7", " ">>, <<"+", "7">>, <<"3", "0", "0">> }

LogValues == { <<" ">>, <<"D">>, <<" ", "T", " ">> }

InputValues(name) ==
    IF name \in Range(RequiredNames) THEN RequiredValues
    ELSE IF name \in Range(IntNames) THEN IntValues
    ELSE LogValues

\* the fewer values of the runs that call load() several times
LifeValues(name) ==
    IF name \in Range(RequiredNames) THEN { <<>>, <<"t">> }
    ELSE IF name \in Range(IntNames) THEN { <<"0">>, <<" ", "7", " ">> }
    ELSE { <<"D">> }

FileValues(name) ==
    IF name \in Range(RequiredNames) THEN { <<"t">> }
    ELSE IF name \in Range(IntNames) THEN { <<>>, <<"7">> }
    ELSE { <<"T">> }

NoCall == [made |-> FALSE, environ |-> <<>>, dotenv |-> <<>>, after |-> <<>>, repeat |-> FALSE]

-----------------------------------------------------------------------------
(* The process *)

Init ==
    /\ environ \in {[n \in S |-> <<"t">>] : S \in SUBSET Range(RequiredNames)}
    /\ dotenv = <<>>
    /\ outcome = [kind |-> "none"]
    /\ held = <<>>
    /\ call = NoCall
    /\ raised = "none"
    /\ edits = 0
    /\ loads = 0

\* os.environ[name] = value, by the process before or between loads
Setenv(name, value) ==
    /\ edits < MaxEdits
    /\ environ' = SetItem(environ, name, value)
    /\ edits' = edits + 1
    /\ raised' = "none"
    /\ UNCHANGED <<dotenv, outcome, held, call, loads>>

\* del os.environ[name]
Unsetenv(name) ==
    /\ edits < MaxEdits
    /\ name \in DOMAIN environ
    /\ environ' = DelItem(environ, name)
    /\ edits' = edits + 1
    /\ raised' = "none"
    /\ UNCHANGED <<dotenv, outcome, held, call, loads>>

\* the .env file is written: name=value
WriteDotenv(name, value) ==
    /\ edits < MaxEdits
    /\ dotenv' = SetItem(dotenv, name, value)
    /\ edits' = edits + 1
    /\ raised' = "none"
    /\ UNCHANGED <<environ, outcome, held, call, loads>>

\* a loader that remembers it has run and refuses a second call
LoadOneShot ==
    /\ loads < MaxLoads
    /\ LET env == LoadDotenv(environ, dotenv)
           result == IF loads > 0 THEN ConfigError(<<"already loaded">>) ELSE LoadFrom(env)
       IN  /\ environ' = env
           /\ outcome' = result
           /\ held' = IF result.kind = "Config" THEN Append(held, result) ELSE held
           /\ call' = [made |-> TRUE, environ |-> environ, dotenv |-> dotenv, after |-> env,
                       repeat |-> call.made /\ environ = call.after /\ dotenv = call.dotenv]
    /\ loads' = loads + 1
    /\ raised' = "none"
    /\ UNCHANGED <<dotenv, edits>>

\* Config.load()
Load ==
    /\ loads < MaxLoads
    /\ LET env == LoadDotenv(environ, dotenv)
           result == LoadFrom(env)
       IN  /\ environ' = env
           /\ outcome' = result
           /\ held' = IF result.kind = "Config" THEN Append(held, result) ELSE held
           /\ call' = [made |-> TRUE, environ |-> environ, dotenv |-> dotenv, after |-> env,
                       repeat |-> call.made /\ environ = call.after /\ dotenv = call.dotenv]
    /\ loads' = loads + 1
    /\ raised' = "none"
    /\ UNCHANGED <<dotenv, edits>>

\* config.<field> = value on a Config that load() returned: the frozen
\* dataclass raises FrozenInstanceError and the object is left as it was
SetAttr(i, field, value) ==
    /\ i \in 1..Len(held)
    /\ held' = IF Frozen THEN held ELSE [held EXCEPT ![i][field] = value]
    /\ raised' = IF Frozen THEN "FrozenInstanceError" ELSE "none"
    /\ UNCHANGED <<environ, dotenv, outcome, call, edits, loads>>

\* One start-up: the environment and the file are prepared, load() runs once.
Next ==
    \/ \E name \in Names : \E value \in InputValues(name) : loads = 0 /\ Setenv(name, value)
    \/ \E name \in Names : loads = 0 /\ Unsetenv(name)
    \/ \E name \in Names : \E value \in FileValues(name) : loads = 0 /\ WriteDotenv(name, value)
    \/ loads = 0 /\ Load

Spec == Init /\ [][Next]_vars

\* The life of a process: load() is called again, between changes of the
\* environment and of the file, and the Configs it returned are held.
NextLife ==
    \/ \E name \in Names : \E value \in LifeValues(name) : Setenv(name, value)
    \/ \E name \in Names : Unsetenv(name)
    \/ \E name \in Names : \E value \in FileValues(name) : WriteDotenv(name, value)
    \/ Load
    \/ \E i \in 1..MaxLoads : SetAttr(i, LOGLEVEL, <<"X">>)

Lifecycle == Init /\ [][NextLife]_vars

-----------------------------------------------------------------------------
(* Vocabulary of the properties, stated on the inputs of the last          *)
(* Config.load() call (call) and on what it produced (outcome).            *)

IsConfig == call.made /\ outcome.kind = "Config"
IsError == call.made /\ outcome.kind = "ConfigError"

\* the environment load() reads: the process environment, completed by the file
Effective == call.after

Blanks == {" ", "\t", "\n", "\r"}

\* c is v without its surrounding blanks
IsTrimOf(c, v) ==
    /\ c = <<>> \/ (c[1] \notin Blanks /\ c[Len(c)] \notin Blanks)
    /\ \E i \in 0..Len(v) : \E j \in i..Len(v) :
          /\ c = SubSeq(v, i + 1, j)
          /\ \A k \in (1..i) \cup ((j + 1)..Len(v)) : v[k] \in Blanks

Trimmed(v) ==
    CHOOSE c \in {SubSeq(v, i + 1, j) : i \in 0..Len(v), j \in 0..Len(v)} : IsTrimOf(c, v)

IsNumeral(c) == Len(c) > 0 /\ \A i \in 1..Len(c) : c[i] \in {"0", "1", "2", "3", "4", "5", "6", "7", "8", "9"}

\* a base-10 integer literal: a numeral with an optional sign
IsLiteral(c) ==
    \/ IsNumeral(c)
    \/ Len(c) > 1 /\ c[1] \in {"+", "-"} /\ IsNumeral(Tail(c))

DecimalDigit ==
    [c \in {"0", "1", "2", "3", "4", "5", "6", "7", "8", "9"} |->
        CASE c = "0" -> 0 [] c = "1" -> 1 [] c = "2" -> 2 [] c = "3" -> 3 [] c = "4" -> 4
          [] c = "5" -> 5 [] c = "6" -> 6 [] c = "7" -> 7 [] c = "8" -> 8 [] c = "9" -> 9]

RECURSIVE NumeralValue(_, _)
NumeralValue(c, acc) ==
    IF c = <<>> THEN acc ELSE NumeralValue(Tail(c), 10 * acc + DecimalDigit[Head(c)])

LiteralValue(c) ==
    IF c[1] = "-" THEN 0 - NumeralValue(Tail(c), 0)
    ELSE IF c[1] = "+" THEN NumeralValue(Tail(c), 0)
    ELSE NumeralValue(c, 0)

DefaultOf(name) ==
    CASE name = INTERVAL -> 15 [] name = MINLEN -> 140 [] name = MAXLEN -> 280

InfoLevel == <<"I", "N", "F", "O">>

IsSet(e, n) == n \in DOMAIN e
IsBlank(e, n) == IsSet(e, n) /\ Trimmed(e[n]) = <<>>

\* a required variable is missing: unset, or empty after trimming
IsMissing(e, n) == ~IsSet(e, n) \/ IsBlank(e, n)
MissingSet(e) == {n \in {TOKEN, DBURL} : IsMissing(e, n)}

\* an integer variable is set to something that is no integer literal
IsInvalid(e, n) == IsSet(e, n) /\ ~IsLiteral(Trimmed(e[n]))
\* the value of an integer variable that is unset or a literal
ValueOf(e, n) == IF IsSet(e, n) THEN LiteralValue(Trimmed(e[n])) ELSE DefaultOf(n)
IsNonPositive(e, n) == ~IsInvalid(e, n) /\ ValueOf(e, n) <= 0

AnyInvalid(e) == \E n \in {INTERVAL, MINLEN, MAXLEN} : IsInvalid(e, n)
AnyNonPositive(e) == \E n \in {INTERVAL, MINLEN, MAXLEN} : IsNonPositive(e, n)
Inverted(e) ==
    /\ ~IsInvalid(e, MINLEN)
    /\ ~IsInvalid(e, MAXLEN)
    /\ ValueOf(e, MINLEN) > ValueOf(e, MAXLEN)

\* the first name, in the order load() reads them, that satisfies P
FirstOf(P(_)) ==
    IF P(INTERVAL) THEN INTERVAL ELSE IF P(MINLEN) THEN MINLEN ELSE MAXLEN

Contains(msg, sub) ==
    \E i \in 0..(Len(msg) - Len(sub)) : SubSeq(msg, i + 1, i + Len(sub)) = sub

Mentions(msg, name) == \E i \in 1..Len(msg) : msg[i] = name

\* the reason a ConfigError message states
ReasonOf(msg) ==
    IF msg[1] = "Missing required environment variable(s): " THEN "missing"
    ELSE IF msg[1] = "Invalid integer for " THEN "invalid integer"
    ELSE IF Len(msg) = 2 /\ msg[2] = " must be > 0" THEN "not positive"
    ELSE IF Len(msg) = 3 /\ msg[2] = " must be <= " THEN "min above max"
    ELSE "other"

InvalidIntegerError(name, trimmed) ==
    [kind |-> "ConfigError",
     msg |-> <<"Invalid integer for ", name, ": ", "'">> \o trimmed \o <<"'">>]

\* loader state of the state machine of the specification
Status ==
    IF ~call.made THEN "unloaded"
    ELSE IF outcome.kind = "Config" THEN "loaded"
    ELSE "failed"

-----------------------------------------------------------------------------
(* C1 *)

ValidInput(e) ==
    /\ MissingSet(e) = {}
    /\ \A n \in {INTERVAL, MINLEN, MAXLEN} :
          ~IsSet(e, n) \/ (IsNumeral(Trimmed(e[n])) /\ ValueOf(e, n) > 0)
    /\ ValueOf(e, MINLEN) <= ValueOf(e, MAXLEN)

ExpectedConfig(e) ==
    [kind |-> "Config",
     TELEGRAM_BOT_TOKEN |-> Trimmed(e[TOKEN]),
     DATABASE_URL |-> Trimmed(e[DBURL]),
     CHECK_INTERVAL_MINUTES |-> ValueOf(e, INTERVAL),
     SUMMARY_MIN_LEN |-> ValueOf(e, MINLEN),
     SUMMARY_MAX_LEN |-> ValueOf(e, MAXLEN),
     LOG_LEVEL |-> IF IsSet(e, LOGLEVEL) /\ ~IsBlank(e, LOGLEVEL)
                   THEN Trimmed(e[LOGLEVEL]) ELSE InfoLevel]

\* C1: when both required variables are non-empty and every integer variable
\* is unset or a positive integer, with min <= max after defaulting, load()
\* returns the Config of the trimmed, parsed or defaulted values (15, 140,
\* 280, "INFO"); the Config depends on the values only through their trimmed
\* form, so surrounding whitespace does not change it.
C1_ValidInputLoads ==
    (call.made /\ ValidInput(Effective)) => outcome = ExpectedConfig(Effective)

\* a load of valid input in which a required value and an integer value are
\* padded with whitespace and another integer variable takes its default
C1_Witness ==
    /\ IsConfig
    /\ ValidInput(Effective)
    /\ \E n \in {TOKEN, DBURL} : Effective[n] # Trimmed(Effective[n])
    /\ \E n \in {INTERVAL, MINLEN, MAXLEN} :
          IsSet(Effective, n) /\ Effective[n] # Trimmed(Effective[n])
    /\ \E n \in {INTERVAL, MINLEN, MAXLEN} : ~IsSet(Effective, n)

-----------------------------------------------------------------------------
(* C2 *)

SatisfiesInvariants(c) ==
    /\ c.TELEGRAM_BOT_TOKEN # <<>> /\ Trimmed(c.TELEGRAM_BOT_TOKEN) = c.TELEGRAM_BOT_TOKEN
    /\ c.DATABASE_URL # <<>> /\ Trimmed(c.DATABASE_URL) = c.DATABASE_URL
    /\ c.CHECK_INTERVAL_MINUTES > 0
    /\ c.SUMMARY_MIN_LEN > 0
    /\ c.SUMMARY_MAX_LEN > 0
    /\ c.LOG_LEVEL # <<>>
    /\ c.SUMMARY_MIN_LEN <= c.SUMMARY_MAX_LEN

\* C2: every Config that load() returned, whatever the environment and the
\* override file, has non-empty trimmed TELEGRAM_BOT_TOKEN and DATABASE_URL,
\* positive CHECK_INTERVAL_MINUTES, SUMMARY_MIN_LEN and SUMMARY_MAX_LEN, a
\* non-empty LOG_LEVEL, and SUMMARY_MIN_LEN <= SUMMARY_MAX_LEN.
C2_ConfigInvariants ==
    /\ IsConfig => SatisfiesInvariants(outcome)
    /\ \A i \in 1..Len(held) : SatisfiesInvariants(held[i])

\* a Config built from values of which one came from the override file and
\* whose min or max length was set
C2_Witness ==
    /\ IsConfig
    /\ \E n \in DOMAIN call.dotenv : ~IsSet(call.environ, n)
    /\ IsSet(Effective, MINLEN) \/ IsSet(Effective, MAXLEN)

-----------------------------------------------------------------------------
(* C3 *)

ExpectedMissingMessage(m) ==
    IF m = {TOKEN, DBURL}
    THEN <<"Missing required environment variable(s): ", TOKEN, ", ", DBURL,
           ". Create a .env file or set them in the environment.">>
    ELSE IF m = {TOKEN}
    THEN <<"Missing required environment variable(s): ", TOKEN,
           ". Create a .env file or set them in the environment.">>
    ELSE <<"Missing required environment variable(s): ", DBURL,
           ". Create a .env file or set them in the environment.">>

\* C3: a required variable is missing exactly when it is unset or empty
\* after trimming; when some are missing, load() fails with the one
\* ConfigError that names every missing required variable and no present
\* one (so unset and blank give the same outcome), and when none is
\* missing no missing-variable error is raised.
C3_MissingReported ==
    call.made =>
        /\ MissingSet(Effective) # {} =>
              /\ outcome = [kind |-> "ConfigError",
                            msg |-> ExpectedMissingMessage(MissingSet(Effective))]
              /\ \A n \in {TOKEN, DBURL} :
                    Mentions(outcome.msg, n) <=> n \in MissingSet(Effective)
        /\ MissingSet(Effective) = {} =>
              (IsError => ReasonOf(outcome.msg) # "missing")

\* one required variable unset and the other set but blank: both are named
C3_Witness ==
    /\ IsError
    /\ \E n \in {TOKEN, DBURL} : ~IsSet(Effective, n)
    /\ \E n \in {TOKEN, DBURL} : IsBlank(Effective, n) /\ Effective[n] # <<>>
    /\ Mentions(outcome.msg, TOKEN)
    /\ Mentions(outcome.msg, DBURL)

-----------------------------------------------------------------------------
(* C4 *)

\* the field of a Config that a set variable determines
FieldFrom(name, value) ==
    IF name \in {INTERVAL, MINLEN, MAXLEN} THEN LiteralValue(Trimmed(value))
    ELSE IF name = LOGLEVEL /\ Trimmed(value) = <<>> THEN InfoLevel
    ELSE Trimmed(value)

\* C4: load() leaves every variable that was set in the process environment
\* as it was, and the Config it returns uses that value, whatever the
\* override file says of the name; the file's values are applied for the
\* names that were not set, and for those only.
C4_EnvironmentWins ==
    call.made =>
        /\ \A n \in DOMAIN call.environ :
              /\ IsSet(call.after, n)
              /\ call.after[n] = call.environ[n]
              /\ IsConfig => outcome[n] = FieldFrom(n, call.environ[n])
        /\ \A n \in (DOMAIN call.dotenv) \ (DOMAIN call.environ) :
              IsSet(call.after, n) /\ call.after[n] = call.dotenv[n]
        /\ DOMAIN call.after = (DOMAIN call.environ) \cup (DOMAIN call.dotenv)

\* LOG_LEVEL set in the environment and, differently, in the file; the file
\* also supplies a name the environment lacks
C4_Witness ==
    /\ IsConfig
    /\ IsSet(call.environ, LOGLEVEL)
    /\ IsSet(call.dotenv, LOGLEVEL)
    /\ Trimmed(call.environ[LOGLEVEL]) # <<>>
    /\ call.environ[LOGLEVEL] # call.dotenv[LOGLEVEL]
    /\ outcome.LOG_LEVEL = call.environ[LOGLEVEL]

-----------------------------------------------------------------------------
(* C5 *)

\* the earliest validation stage the environment violates
EarliestViolation(e) ==
    IF MissingSet(e) # {} THEN "missing"
    ELSE IF AnyInvalid(e) THEN "invalid integer"
    ELSE IF AnyNonPositive(e) THEN "not positive"
    ELSE IF Inverted(e) THEN "min above max"
    ELSE "none"

\* C5: the ConfigError of load() is the one of the earliest stage the
\* environment violates, in the order: required variables present, integers
\* parse, integers positive, min <= max; with no stage violated there is no
\* error.
C5_StagedValidation ==
    call.made =>
        IF EarliestViolation(Effective) = "none"
        THEN outcome.kind = "Config"
        ELSE outcome.kind = "ConfigError"
             /\ ReasonOf(outcome.msg) = EarliestViolation(Effective)

\* an integer variable read first is not positive and one read after it
\* does not parse: the parse failure is reported
C5_Witness ==
    /\ IsError
    /\ MissingSet(Effective) = {}
    /\ IsNonPositive(Effective, INTERVAL)
    /\ IsInvalid(Effective, MAXLEN)
    /\ ReasonOf(outcome.msg) = "invalid integer"

-----------------------------------------------------------------------------
(* C6 *)

\* C6 as stated: with both required variables present, every integer
\* variable that is no integer literal is named, with its value, by an
\* invalid-integer ConfigError; every value that is <= 0 gets the
\* not-positive error and min > max (of positive values) gets the
\* min-above-max error.
C6_AsStated ==
    (call.made /\ MissingSet(Effective) = {}) =>
        /\ \A n \in {INTERVAL, MINLEN, MAXLEN} :
              IsInvalid(Effective, n) =>
                  /\ outcome.kind = "ConfigError"
                  /\ ReasonOf(outcome.msg) = "invalid integer"
                  /\ Mentions(outcome.msg, n)
                  /\ Contains(outcome.msg, Trimmed(Effective[n]))
        /\ AnyNonPositive(Effective) =>
              outcome.kind = "ConfigError" /\ ReasonOf(outcome.msg) = "not positive"
        /\ (Inverted(Effective) /\ ~AnyNonPositive(Effective)) =>
              outcome.kind = "ConfigError" /\ ReasonOf(outcome.msg) = "min above max"

IsInvalidInEffective(n) == IsInvalid(Effective, n)
IsNonPositiveInEffective(n) == IsNonPositive(Effective, n)

\* C6 (amended): with both required variables present, an integer variable
\* that is no integer literal makes load() fail with the invalid-integer
\* ConfigError of the first such variable in reading order, which names it
\* and holds its trimmed value; if all parse and one is <= 0, with the
\* not-positive error of the first such variable; if all are positive and
\* min > max, with the min-above-max error; in none of these cases is a
\* Config returned.
C6_ErrorsNeverDefaulted ==
    (call.made /\ MissingSet(Effective) = {}) =>
        /\ AnyInvalid(Effective) =>
              LET n == FirstOf(IsInvalidInEffective)
              IN  /\ outcome = InvalidIntegerError(n, Trimmed(Effective[n]))
                  /\ Mentions(outcome.msg, n)
                  /\ Contains(outcome.msg, Trimmed(Effective[n]))
        /\ (~AnyInvalid(Effective) /\ AnyNonPositive(Effective)) =>
              outcome = [kind |-> "ConfigError",
                         msg |-> <<FirstOf(IsNonPositiveInEffective), " must be > 0">>]
        /\ (~AnyInvalid(Effective) /\ ~AnyNonPositive(Effective) /\ Inverted(Effective)) =>
              outcome = [kind |-> "ConfigError",
                         msg |-> <<MINLEN, " must be <= ", MAXLEN>>]
        /\ (AnyInvalid(Effective) \/ AnyNonPositive(Effective) \/ Inverted(Effective)) =>
              outcome.kind = "ConfigError"

\* two integer variables are set to text that is no integer, the first one
\* read with whitespace around it: it is the one reported, trimmed
C6_Witness ==
    /\ IsError
    /\ MissingSet(Effective) = {}
    /\ Cardinality({n \in {INTERVAL, MINLEN, MAXLEN} : IsInvalid(Effective, n)}) > 1
    /\ Effective[FirstOf(IsInvalidInEffective)] # Trimmed(Effective[FirstOf(IsInvalidInEffective)])
    /\ Trimmed(Effective[FirstOf(IsInvalidInEffective)]) # <<>>
    /\ ReasonOf(outcome.msg) = "invalid integer"

-----------------------------------------------------------------------------
(* C7 *)

\* C7: a Config that load() returned keeps every field in every later step:
\* a change of the environment or of the file, another load(), an attempted
\* attribute assignment.
C7_ConfigNeverMutated ==
    [][/\ Len(held') >= Len(held)
       /\ \A i \in 1..Len(held) : held'[i] = held[i]]_vars

\* two loads returned different Configs (the environment changed between
\* them) and an attribute assignment has just been refused
C7_Witness ==
    /\ Len(held) = 2
    /\ held[1] # held[2]
    /\ raised = "FrozenInstanceError"

-----------------------------------------------------------------------------
(* C8 *)

-----------------------------------------------------------------------------
(* C9 *)

\* C9: a load() called when the process environment and the override file
\* are as the previous load() left them yields the outcome of the previous
\* load() (an equal Config, or a ConfigError with the same message) and
\* leaves the process environment as it is.
C9_LoadIdempotent ==
    [][(/\ loads' = loads + 1
        /\ call.made
        /\ environ = call.after
        /\ dotenv = call.dotenv) => (outcome' = outcome /\ environ' = environ)]_vars

\* a second load() right after a first one that took a value from the file
C9_Witness ==
    /\ loads = 2
    /\ call.repeat
    /\ \E n \in DOMAIN call.dotenv : call.environ[n] = call.dotenv[n]
    /\ IsConfig

-----------------------------------------------------------------------------
(* C10 *)

\* C10 as stated: with both required variables present, an integer variable
\* that is set but blank makes load() fail with the invalid-integer error
\* for that variable; a blank LOG_LEVEL yields "INFO"; the defaults 15, 140
\* and 280 are taken only for unset variables.
C10_AsStated ==
    (call.made /\ MissingSet(Effective) = {}) =>
        /\ \A n \in {INTERVAL, MINLEN, MAXLEN} :
              IsBlank(Effective, n) => outcome = InvalidIntegerError(n, <<>>)
        /\ (IsConfig /\ IsBlank(Effective, LOGLEVEL)) => outcome.LOG_LEVEL = InfoLevel
        /\ IsConfig =>
              \A n \in {INTERVAL, MINLEN, MAXLEN} :
                  outcome[n] = IF IsSet(Effective, n)
                               THEN LiteralValue(Trimmed(Effective[n])) ELSE DefaultOf(n)

\* C10 (amended): with both required variables present, an integer variable
\* that is set but blank makes load() fail with an invalid-integer error
\* and never takes its default: the error is the one for that variable
\* (with the empty value) when no integer variable read before it is
\* invalid, and the one for the first invalid variable otherwise; a blank
\* LOG_LEVEL yields "INFO"; the defaults 15, 140 and 280 are taken only for
\* unset variables.
C10_BlankOptionals ==
    (call.made /\ MissingSet(Effective) = {}) =>
        /\ \A n \in {INTERVAL, MINLEN, MAXLEN} :
              IsBlank(Effective, n) =>
                  /\ outcome.kind = "ConfigError"
                  /\ ReasonOf(outcome.msg) = "invalid integer"
                  /\ FirstOf(IsInvalidInEffective) = n =>
                        outcome = InvalidIntegerError(n, <<>>)
                  /\ FirstOf(IsInvalidInEffective) # n =>
                        /\ ~Mentions(outcome.msg, n)
                        /\ Mentions(outcome.msg, FirstOf(IsInvalidInEffective))
        /\ (IsConfig /\ IsBlank(Effective, LOGLEVEL)) => outcome.LOG_LEVEL = InfoLevel
        /\ IsConfig =>
              \A n \in {INTERVAL, MINLEN, MAXLEN} :
                  outcome[n] = IF IsSet(Effective, n)
                               THEN LiteralValue(Trimmed(Effective[n])) ELSE DefaultOf(n)

\* an integer variable holds only whitespace and load() reports it with the
\* empty value
C10_Witness ==
    /\ IsError
    /\ MissingSet(Effective) = {}
    /\ \E n \in {INTERVAL, MINLEN, MAXLEN} :
          /\ IsBlank(Effective, n)
          /\ Effective[n] # <<>>
          /\ outcome = InvalidIntegerError(n, <<>>)

====
